---------------------------- MODULE Spec2Model ----------------------------
(***************************************************************************)
(* Model of src/script.js, the dashboard script of Executive-Filing-Monitor *)
(* (insider "Form 4" trades and "Form 8-K" filings): the loadData refresh   *)
(* routine and its timer, the filter controls and the watchlist, the table  *)
(* renderers, the statistics and the value histogram.                       *)
(*                                                                          *)
(* JavaScript strings that the code takes apart (split, trim, toUpperCase,  *)
(* includes) are sequences of one-character strings; strings the code only  *)
(* compares or concatenates are TLA+ strings.                               *)
(***************************************************************************)
EXTENDS Integers, Sequences, FiniteSets, TLC

VARIABLES
    tradesData,             \* script.js:4
    form8kData,             \* script.js:5
    filteredTrades,         \* script.js:6
    customWatchlistTickers, \* script.js:9
    form8kSortOrder,        \* script.js:10
    filterType,             \* value of <select id="filterType">
    filterTicker,           \* value of <input id="filterTicker">
    filterMinValue,         \* value of <input id="filterMinValue">
    sortBy,                 \* value of <select id="sortBy">
    customWatchlist,        \* value of <input id="customWatchlist">
    sort8K,                 \* value of <select id="sort8K">
    form4Body,              \* innerHTML of <tbody id="form4Body">
    form8kBody,             \* innerHTML of <tbody id="form8kBody">, row by row
    statsText,              \* textContent of the six statistics elements
    valueChart,             \* data of charts.value, the value histogram
    lastUpdate,             \* textContent of <span id="lastUpdate">
    feed,                   \* what the two data URLs answer at this moment
    calls,                  \* the loadData invocations: where each one stands
    timerActive,            \* the setInterval registration of script.js:504
    solo,                   \* history: the datasets as the invocation that
                            \* runs alone found them
    pairing                 \* history: whether one invocation assigned both
                            \* datasets

globals == <<tradesData, form8kData, filteredTrades, customWatchlistTickers,
             form8kSortOrder>>
controls == <<filterType, filterTicker, filterMinValue, sortBy,
              customWatchlist, sort8K>>
rendered == <<form4Body, form8kBody, statsText, valueChart, lastUpdate>>
environment == <<feed, calls, timerActive, solo, pairing>>
vars == <<globals, controls, rendered, environment>>

---------------------------------------------------------------------------
(* Bounds of the model.                                                    *)

\* longest trades list drawn as an input of the filter pipeline
MaxTrades == 3
\* longest text typed into the watchlist box
MaxInputLen == 4
\* longest items list (or number of comma-separated pieces) of a filing
MaxItems == 2
\* loadData invocations that may be awaiting a response at the same time
MaxInFlight == 2
\* the same, in the model of the refresh loop's progress
MaxInFlightLive == 1

---------------------------------------------------------------------------
(* JavaScript values.                                                      *)

\* an absent numeric property (JS undefined); the feed's numbers are >= 0
Undefined == -1
\* the result of arithmetic on undefined, or of an unparsable date or number
NaN == -2

IsNumber(v) == v >= 0

\* JS a < b on numbers: false as soon as one side is undefined or NaN
JsLess(a, b) == IsNumber(a) /\ IsNumber(b) /\ a < b

\* JS b - a: NaN as soon as one side is undefined or NaN; only its sign is
\* used, so the difference of two numbers is kept as it is
JsMinus(b, a) == IF IsNumber(a) /\ IsNumber(b) THEN [nan |-> FALSE, v |-> b - a]
                 ELSE [nan |-> TRUE, v |-> 0]

---------------------------------------------------------------------------
(* Strings as sequences of characters.                                     *)

Space == " "
Comma == ","

toUpperCaseChar(c) ==
    CASE c = "a" -> "A"
      [] c = "b" -> "B"
      [] OTHER -> c

\* String.prototype.toUpperCase
toUpperCase(s) == [i \in 1..Len(s) |-> toUpperCaseChar(s[i])]

RECURSIVE trimStart(_)
trimStart(s) == IF s # <<>> /\ Head(s) = Space THEN trimStart(Tail(s)) ELSE s

RECURSIVE trimEnd(_)
trimEnd(s) ==
    IF s # <<>> /\ s[Len(s)] = Space THEN trimEnd(SubSeq(s, 1, Len(s) - 1))
    ELSE s

\* String.prototype.trim
trim(s) == trimEnd(trimStart(s))

\* String.prototype.split(','): always at least one piece
RECURSIVE splitFrom(_, _)
splitFrom(s, piece) ==
    IF s = <<>> THEN <<piece>>
    ELSE IF Head(s) = Comma THEN <<piece>> \o splitFrom(Tail(s), <<>>)
    ELSE splitFrom(Tail(s), Append(piece, Head(s)))

split(s) == splitFrom(s, <<>>)

\* String.prototype.includes: sub occurs in s as a contiguous run
includes(s, sub) ==
    \E i \in 1..(Len(s) - Len(sub) + 1) : SubSeq(s, i, i + Len(sub) - 1) = sub

\* Array.prototype.includes
arrayIncludes(arr, x) == \E i \in 1..Len(arr) : arr[i] = x

\* Array.prototype.map over strings, for the two uses in the script
mapTrim(arr) == [i \in 1..Len(arr) |-> trim(arr[i])]
mapTrimUpper(arr) == [i \in 1..Len(arr) |-> toUpperCase(trim(arr[i]))]

\* Array.prototype.filter(t => t): a string is truthy iff it is not empty
filterTruthy(arr) == SelectSeq(arr, LAMBDA t : t # <<>>)

\* the characters of a string joined into a TLA+ string (template literal)
RECURSIVE Text(_)
Text(s) == IF s = <<>> THEN "" ELSE Head(s) \o Text(Tail(s))

---------------------------------------------------------------------------
(* Dates and numbers read from text.                                       *)

\* new Date(text) as a day count since 1970-01-01 (only differences of dates
\* are used); a text that is no date gives an Invalid Date, whose value is NaN
DateParse(text) ==
    CASE text = "2024-01-01" -> 19723
      [] text = "2024-01-02" -> 19724
      [] text = "2024-01-02T00:00:00Z" -> 19724
      [] text = "2024-01-03" -> 19725
      [] OTHER -> NaN

\* parseFloat(text) for the texts the minimum-value box is given here
parseFloat(text) ==
    CASE text = "0" -> 0
      [] text = "50000" -> 50000
      [] text = "100000" -> 100000
      [] OTHER -> NaN

\* parseFloat(text) || 0: NaN and 0 are falsy
parseFloatOrZero(text) ==
    IF parseFloat(text) = NaN \/ parseFloat(text) = 0 THEN 0 ELSE parseFloat(text)

---------------------------------------------------------------------------
(* Array.prototype.sort(comparefn).                                        *)

Sign(n) == IF n < 0 THEN -1 ELSE IF n > 0 THEN 1 ELSE 0

\* the sign of what the comparator returns; a NaN result counts as +0
\* (ECMAScript, SortCompare)
CompareResult(d) == IF d.nan THEN 0 ELSE Sign(d.v)

\* the comparators of the script, by name:
\*   value, shares, date: applyFilters, script.js:321-325
\*   newest, oldest:      renderForm8kTable, script.js:232-240
comparefn(a, b, mode) ==
    CASE mode = "value"  -> CompareResult(JsMinus(b.totalValue, a.totalValue))
      [] mode = "shares" -> CompareResult(JsMinus(b.shares, a.shares))
      [] mode = "newest" ->
            CompareResult(JsMinus(DateParse(b.filedDate), DateParse(a.filedDate)))
      [] mode = "oldest" ->
            CompareResult(JsMinus(DateParse(a.filedDate), DateParse(b.filedDate)))
      [] OTHER ->
            CompareResult(JsMinus(DateParse(b.filingDate), DateParse(a.filingDate)))

\* ECMAScript's "consistent comparator" for the values of list
ConsistentComparator(list, mode) ==
    \A i, j, k \in 1..Len(list) :
        LET a == list[i]
            b == list[j]
            c == list[k]
        IN  /\ comparefn(a, a, mode) = 0
            /\ comparefn(a, b, mode) = -comparefn(b, a, mode)
            /\ (comparefn(a, b, mode) = 0 /\ comparefn(b, c, mode) = 0)
                    => comparefn(a, c, mode) = 0
            /\ (comparefn(a, b, mode) < 0 /\ comparefn(b, c, mode) < 0)
                    => comparefn(a, c, mode) < 0
            /\ (comparefn(a, b, mode) > 0 /\ comparefn(b, c, mode) > 0)
                    => comparefn(a, c, mode) > 0

\* x put into the sorted list s behind every element that does not sort after it
RECURSIVE insertSorted(_, _, _)
insertSorted(x, s, mode) ==
    IF s = <<>> THEN <<x>>
    ELSE IF comparefn(Head(s), x, mode) > 0 THEN <<x>> \o s
    ELSE <<Head(s)>> \o insertSorted(x, Tail(s), mode)

\* the stable sort every engine computes for a consistent comparator
RECURSIVE stableSort(_, _)
stableSort(list, mode) ==
    IF list = <<>> THEN <<>>
    ELSE insertSorted(list[Len(list)],
                      stableSort(SubSeq(list, 1, Len(list) - 1), mode), mode)

Arrangements(list) ==
    { [i \in 1..Len(list) |-> list[p[i]]] :
        p \in { q \in [1..Len(list) -> 1..Len(list)] :
                    \A i, j \in 1..Len(list) : q[i] = q[j] => i = j } }

\* What sort may leave in the array: the stable order when the comparator is
\* consistent for these values; otherwise the order is implementation-defined
\* (ECMAScript, Array.prototype.sort), any arrangement of the same elements.
sortOutcomes(list, mode) ==
    UNION { IF ConsistentComparator(array, mode) THEN {stableSort(array, mode)}
            ELSE Arrangements(array) : array \in {list} }

---------------------------------------------------------------------------
(* Form 8-K explanations: get8KExplanation.                                *)
(*                                                                         *)
(* A filing is [symbol, filedDate, itemsKind, itemsArray, itemsString]:    *)
(* its items property is an array of strings (itemsKind = "array"), one    *)
(* comma-joined string ("string") or absent ("absent").                    *)

\* the object literal itemExplanations; the three emoji of the source are
\* written as their code points
itemExplanations ==
    ("1.01" :> "Company signed an important contract") @@
    ("1.02" :> "Major contract terminated or cancelled") @@
    ("1.03" :> "U+1F6A8 Bankruptcy or receivership filing") @@
    ("2.01" :> "Acquired or sold significant business/assets") @@
    ("2.02" :> "Earnings release or financial results") @@
    ("2.03" :> "New debt issued (loans, bonds, credit)") @@
    ("2.04" :> "Debt acceleration or penalties triggered") @@
    ("2.05" :> "Restructuring, layoffs, or plant closures") @@
    ("2.06" :> "Large asset write-downs or impairments") @@
    ("3.01" :> "U+1F6A8 Risk of delisting from exchange") @@
    ("3.02" :> "Private stock sale (unregistered)") @@
    ("3.03" :> "Changes to shareholder rights or dividends") @@
    ("4.01" :> "Auditor changed (fired or resigned)") @@
    ("4.02" :> "U+1F6A9 Financial restatement likely - accounting issue") @@
    ("5.01" :> "Change in company ownership/control") @@
    ("5.02" :> "CEO/CFO or director change") @@
    ("5.03" :> "Corporate governance rules updated") @@
    ("5.04" :> "Employee stock trading temporarily suspended") @@
    ("5.05" :> "Code of ethics amended or waived") @@
    ("7.01" :> "Public disclosure of material information") @@
    ("8.01" :> "Other material event (lawsuit, investigation, etc.)") @@
    ("9.01" :> "Financial statements and exhibits attached")

\* what an object literal inherits from Object.prototype, as a template
\* literal prints it: obj[key] finds these too
ObjectPrototype ==
    ("constructor" :> "function Object() { [native code] }") @@
    ("toString" :> "function toString() { [native code] }") @@
    ("toLocaleString" :> "function toLocaleString() { [native code] }") @@
    ("valueOf" :> "function valueOf() { [native code] }") @@
    ("hasOwnProperty" :> "function hasOwnProperty() { [native code] }") @@
    ("isPrototypeOf" :> "function isPrototypeOf() { [native code] }") @@
    ("propertyIsEnumerable" :> "function propertyIsEnumerable() { [native code] }") @@
    ("__proto__" :> "[object Object]")

\* itemExplanations[key]: an own property, else an inherited one, else
\* undefined; every value found is truthy
propertyLookup(key) ==
    IF key \in DOMAIN itemExplanations
        THEN [truthy |-> TRUE, text |-> itemExplanations[key]]
    ELSE IF key \in DOMAIN ObjectPrototype
        THEN [truthy |-> TRUE, text |-> ObjectPrototype[key]]
    ELSE [truthy |-> FALSE, text |-> ""]

\* filing.items && filing.items.length > 0
hasItems(filing) ==
    \/ filing.itemsKind = "array" /\ Len(filing.itemsArray) > 0
    \/ filing.itemsKind = "string" /\ Len(filing.itemsString) > 0

\* the const items of script.js:187-188
parsedItems(filing) ==
    IF filing.itemsKind = "array" THEN filing.itemsArray
    ELSE IF filing.itemsKind = "string" THEN mapTrim(split(filing.itemsString))
    ELSE <<>>

\* the pushed span pair of script.js:197
describeItem(trimmedItem) ==
    "<span class=\"item-code\">Item " \o Text(trimmedItem)
        \o "</span><span class=\"item-description\">"
        \o propertyLookup(Text(trimmedItem)).text \o "</span>"

\* the loop of script.js:193-201
RECURSIVE descriptionsOf(_)
descriptionsOf(items) ==
    IF items = <<>> THEN <<>>
    ELSE LET trimmedItem == trim(Head(items))
         IN  IF propertyLookup(Text(trimmedItem)).truthy
                THEN <<describeItem(trimmedItem)>> \o descriptionsOf(Tail(items))
             ELSE descriptionsOf(Tail(items))

\* Array.prototype.join('<br>')
RECURSIVE joinBr(_)
joinBr(parts) ==
    IF parts = <<>> THEN ""
    ELSE IF Len(parts) = 1 THEN Head(parts)
    ELSE Head(parts) \o "<br>" \o joinBr(Tail(parts))

DefaultExplanation == "Material company event requiring SEC disclosure"

\* script.js:187-212: items and descriptions are computed once and then read
get8KExplanation(filing) ==
    CHOOSE text \in
        { IF hasItems(filing) /\ Len(descriptions) > 0
            THEN "<div style=\"line-height: 1.8;\">" \o joinBr(descriptions) \o "</div>"
          ELSE DefaultExplanation :
            descriptions \in { descriptionsOf(items) : items \in {parsedItems(filing)} } } :
        TRUE

---------------------------------------------------------------------------
(* The renderers and applyFilters.  They are written over the primed       *)
(* variables: each is called by a handler after the handler's own          *)
(* assignments, and reads the globals and controls as the handler left     *)
(* them.                                                                   *)

\* script.js:224-229: the watchlist applied to the filings
displayForm8kOf(filings, watchlist) ==
    IF Len(watchlist) > 0
        THEN SelectSeq(filings, LAMBDA filing : arrayIncludes(watchlist, filing.symbol))
    ELSE filings

form8kMode(order) == IF order = "newest" THEN "newest" ELSE "oldest"

form8kRows(display) ==
    [i \in 1..Len(display) |->
        [filing |-> display[i], explanation |-> get8KExplanation(display[i])]]

renderForm8kTable ==
    \E displayForm8k \in
            sortOutcomes(displayForm8kOf(form8kData', customWatchlistTickers'),
                         form8kMode(form8kSortOrder')) :
        form8kBody' =
            IF Len(displayForm8k) = 0
                THEN [state |-> "No Form 8-K filings available", rows |-> <<>>]
            ELSE [state |-> "rows", rows |-> form8kRows(displayForm8k)]

renderForm4Table ==
    form4Body' =
        IF Len(filteredTrades') = 0
            THEN [state |-> "No trades match your filters", rows |-> 0]
        ELSE [state |-> "rows", rows |-> Len(filteredTrades')]

\* the callback of tradesData.filter, script.js:304-318
tradePasses(trade, type, ticker, watchlist, minValue) ==
    /\ ~(type # "all" /\ trade.type # type)
    /\ ~(ticker # <<>> /\ ~includes(trade.symbol, ticker))
    /\ ~(Len(watchlist) > 0 /\ ~arrayIncludes(watchlist, trade.symbol))
    /\ ~JsLess(trade.totalValue, minValue)

filterTrades(trades, type, ticker, watchlist, minValue) ==
    SelectSeq(trades, LAMBDA trade : tradePasses(trade, type, ticker, watchlist, minValue))

tradeSortMode(by) == IF by \in {"value", "shares"} THEN by ELSE "date"

\* script.js:299-327: the filter, the sort and the Form 4 table
applyFiltersTrades ==
    /\ filteredTrades' \in
            sortOutcomes(filterTrades(tradesData', filterType',
                                      toUpperCase(filterTicker'),
                                      customWatchlistTickers',
                                      parseFloatOrZero(filterMinValue')),
                         tradeSortMode(sortBy'))
    /\ renderForm4Table

applyFilters ==
    /\ applyFiltersTrades
    /\ renderForm8kTable

---------------------------------------------------------------------------
(* updateStats and the value histogram of renderCharts.                    *)

\* Number.prototype.toFixed(2) of value / unit, kept as a count of hundredths
toFixed2(value, unit) == (value * 100 + unit \div 2) \div unit

\* script.js:73-83: the total value with its K, M or B suffix
formatTotalValue(totalValue) ==
    IF totalValue >= 1000000000
        THEN [hundredths |-> toFixed2(totalValue, 1000000000), suffix |-> "B"]
    ELSE IF totalValue >= 1000000
        THEN [hundredths |-> toFixed2(totalValue, 1000000), suffix |-> "M"]
    ELSE IF totalValue >= 1000
        THEN [hundredths |-> toFixed2(totalValue, 1000), suffix |-> "K"]
    ELSE [hundredths |-> toFixed2(totalValue, 1), suffix |-> ""]

symbolsOf(records) == {records[i].symbol : i \in 1..Len(records)}

\* uniqueTickersSize with a fault: the two symbol sets are counted apart
uniqueTickersCountedApart(trades, filings) ==
    Cardinality(symbolsOf(trades)) + Cardinality(symbolsOf(filings))

\* new Set([...tradesData.map(..), ...form8kData.map(..)]).size
uniqueTickersSize(trades, filings) ==
    Cardinality(symbolsOf(trades) \cup symbolsOf(filings))

\* The stats property of the trades document is [kind, totalAlerts, buys,
\* sells, totalValue]: kind "absent" (no stats property), "empty" (an object
\* without the four numbers) or "numbers".

\* updateStats returns at once for a missing stats object (script.js:66)
updateStatsSkips(stats) == stats.kind = "absent"

\* stats.totalAlerts.toLocaleString() on an object without totalAlerts is a
\* TypeError (script.js:68), raised before anything is written
updateStatsThrows(stats) == stats.kind = "empty"

\* The texts written by script.js:68-89; toLocaleString prints the digits of
\* the number, so the number stands for its text.
statsTextOf(stats, trades, filings) ==
    [totalAlerts   |-> stats.totalAlerts,
     totalBuys     |-> stats.buys,
     totalSells    |-> stats.sells,
     totalValue    |-> formatTotalValue(stats.totalValue),
     total8K       |-> Len(filings),
     activeTickers |-> uniqueTickersSize(trades, filings)]

updateStats(stats) ==
    statsText' = IF updateStatsSkips(stats) THEN statsText
                 ELSE statsTextOf(stats, tradesData', form8kData')

\* valueBucketOf with a fault: the upper bounds are inclusive
valueBucketUpToBound(val) ==
    IF ~JsLess(50000, val) THEN 1
    ELSE IF ~JsLess(100000, val) THEN 2
    ELSE IF ~JsLess(500000, val) THEN 3
    ELSE IF ~JsLess(1000000, val) THEN 4
    ELSE IF ~JsLess(5000000, val) THEN 5
    ELSE 6

\* the if-chain of script.js:424-429: the bucket, 1 to 6, a value is counted in
valueBucketOf(val) ==
    IF JsLess(val, 50000) THEN 1
    ELSE IF JsLess(val, 100000) THEN 2
    ELSE IF JsLess(val, 500000) THEN 3
    ELSE IF JsLess(val, 1000000) THEN 4
    ELSE IF JsLess(val, 5000000) THEN 5
    ELSE 6

\* Object.values(valueBuckets) after the forEach of script.js:422-430
valueBucketsOf(trades) ==
    [b \in 1..6 |->
        Cardinality({i \in 1..Len(trades) : valueBucketOf(trades[i].totalValue) = b})]

\* The value histogram of renderCharts (script.js:417-454); the three other
\* charts of the function are not part of this model.
renderCharts == valueChart' = valueBucketsOf(tradesData')

---------------------------------------------------------------------------
(* The handlers of the controls.                                           *)

NoDataAvailable == "No data available. Waiting for first data collection..."

\* customWatchlistFrom with a fault: the tokens are not uppercased
customWatchlistAsTyped(text) ==
    LET input == trim(text)
    IN  IF input # <<>> THEN filterTruthy(mapTrim(split(input)))
        ELSE <<>>

\* script.js:96-103: the watchlist read from the text of the box
customWatchlistFrom(text) ==
    LET input == trim(text)
    IN  IF input # <<>> THEN filterTruthy(mapTrimUpper(split(input)))
        ELSE <<>>

ApplyCustomWatchlist ==
    /\ customWatchlistTickers' = customWatchlistFrom(customWatchlist)
    /\ UNCHANGED <<tradesData, form8kData, form8kSortOrder>>
    /\ UNCHANGED controls
    /\ applyFilters
    /\ UNCHANGED <<statsText, valueChart, lastUpdate, environment>>

ClearCustomWatchlist ==
    /\ customWatchlistTickers' = <<>>
    /\ customWatchlist' = <<>>
    /\ UNCHANGED <<filterType, filterTicker, filterMinValue, sortBy, sort8K>>
    /\ UNCHANGED <<tradesData, form8kData, form8kSortOrder>>
    /\ applyFilters
    /\ UNCHANGED <<statsText, valueChart, lastUpdate, environment>>

\* applyFilters called with the controls as they stand
ApplyFilters ==
    /\ UNCHANGED controls
    /\ UNCHANGED <<tradesData, form8kData, customWatchlistTickers, form8kSortOrder>>
    /\ applyFilters
    /\ UNCHANGED <<statsText, valueChart, lastUpdate, environment>>

ResetFilters ==
    /\ filterType' = "all"
    /\ filterTicker' = <<>>
    /\ filterMinValue' = "100000"
    /\ sortBy' = "date"
    /\ UNCHANGED <<customWatchlist, sort8K>>
    /\ UNCHANGED <<tradesData, form8kData, customWatchlistTickers, form8kSortOrder>>
    /\ applyFilters
    /\ UNCHANGED <<statsText, valueChart, lastUpdate, environment>>

\* applyForm8KSort with the sort8K control as it stands
ApplyForm8KSort ==
    /\ form8kSortOrder' = sort8K
    /\ UNCHANGED controls
    /\ UNCHANGED <<tradesData, form8kData, filteredTrades, customWatchlistTickers>>
    /\ renderForm8kTable
    /\ UNCHANGED <<form4Body, statsText, valueChart, lastUpdate, environment>>

\* the user picks a sort order and applyForm8KSort runs on the change
ChangeForm8KSort(order) ==
    /\ sort8K' = order
    /\ form8kSortOrder' = sort8K'
    /\ UNCHANGED <<filterType, filterTicker, filterMinValue, sortBy, customWatchlist>>
    /\ UNCHANGED <<tradesData, form8kData, filteredTrades, customWatchlistTickers>>
    /\ renderForm8kTable
    /\ UNCHANGED <<form4Body, statsText, valueChart, lastUpdate, environment>>

\* renderCharts called on the data as it stands
RenderCharts ==
    /\ UNCHANGED <<globals, controls, environment>>
    /\ renderCharts
    /\ UNCHANGED <<form4Body, form8kBody, statsText, lastUpdate>>

---------------------------------------------------------------------------
(* The data the model runs on.                                             *)

BA == <<"B", "A">>
AB == <<"A", "B">>
A == <<"A">>
ba == <<"b", "a">>

Trade(type, symbol, totalValue, shares, filingDate) ==
    [type |-> type, symbol |-> symbol, totalValue |-> totalValue,
     shares |-> shares, filingDate |-> filingDate]

Filing(symbol, filedDate, itemsKind, itemsArray, itemsString) ==
    [symbol |-> symbol, filedDate |-> filedDate, itemsKind |-> itemsKind,
     itemsArray |-> itemsArray, itemsString |-> itemsString]

NoStats == [kind |-> "absent", totalAlerts |-> 0, buys |-> 0, sells |-> 0, totalValue |-> 0]
EmptyStats == [kind |-> "empty", totalAlerts |-> 0, buys |-> 0, sells |-> 0, totalValue |-> 0]

Unreachable == [status |-> "unreachable"]
Malformed == [status |-> "malformed"]

\* { trades: [BUY BA, SELL AB], stats: {...}, lastUpdated: ... }
TradesDocA ==
    [status |-> "json", hasTrades |-> TRUE,
     trades |-> << Trade("BUY", BA, 200000, 100, "2024-01-01"),
                   Trade("SELL", AB, 50000, 100, "2024-01-02") >>,
     stats |-> [kind |-> "numbers", totalAlerts |-> 2, buys |-> 1, sells |-> 1,
                totalValue |-> 250000],
     lastUpdated |-> "2024-01-02T12:00:00Z"]

\* { trades: [SELL BA without totalValue] }: no stats, no lastUpdated
TradesDocB ==
    [status |-> "json", hasTrades |-> TRUE,
     trades |-> << Trade("SELL", BA, Undefined, 10, "2024-01-03") >>,
     stats |-> NoStats, lastUpdated |-> ""]

\* { stats: {} }: no trades property, a stats object without its numbers
TradesDocC ==
    [status |-> "json", hasTrades |-> FALSE, trades |-> <<>>,
     stats |-> EmptyStats, lastUpdated |-> ""]

\* { filings: [AB with items ["2.02"], A with items "8.01, 9.99"] }
FilingsDocA ==
    [status |-> "json", hasFilings |-> TRUE,
     filings |-> << Filing(AB, "2024-01-02", "array",
                           << <<"2", ".", "0", "2">> >>, <<>>),
                    Filing(A, "2024-01-01", "string", <<>>,
                           <<"8", ".", "0", "1", ",", " ", "9", ".", "9", "9">>) >>]

\* {}: no filings property
FilingsDocB == [status |-> "json", hasFilings |-> FALSE, filings |-> <<>>]

\* The two data URLs are outside the program.  feed is what is known of
\* them: AnyFeed when either may answer anything at any time, or the one
\* answer each gives for now.
Anything == [status |-> "anything"]
AnyFeed == [trades |-> Anything, filings |-> Anything]

AllTradesResponses == {Unreachable, Malformed, TradesDocA, TradesDocB, TradesDocC}
AllFilingsResponses == {Unreachable, Malformed, FilingsDocA, FilingsDocB}

\* what data/trades_data.json may answer in this state
TradesResponses ==
    IF feed.trades = Anything THEN AllTradesResponses ELSE {feed.trades}

\* what data/form8k_data.json may answer in this state
FilingsResponses ==
    IF feed.filings = Anything THEN AllFilingsResponses ELSE {feed.filings}

\* the feed states of the model in which the feed is followed over time
Feeds ==
    { [trades |-> TradesDocA,  filings |-> FilingsDocA],
      [trades |-> TradesDocB,  filings |-> FilingsDocB],
      [trades |-> Unreachable, filings |-> Malformed],
      [trades |-> Malformed,   filings |-> Unreachable],
      [trades |-> TradesDocC,  filings |-> FilingsDocA] }

\* the data behind the URLs changes, or they start or stop answering
FeedChanges ==
    /\ feed \in Feeds
    /\ feed' \in Feeds \ {feed}
    /\ UNCHANGED <<globals, controls, rendered, calls, timerActive, solo, pairing>>

---------------------------------------------------------------------------
(* loadData and the refresh timer.                                         *)
(*                                                                         *)
(* Each data URL answers with a response: [status |-> "unreachable"] (the  *)
(* fetch rejects, or the body breaks off), [status |-> "malformed"] (a     *)
(* body that is not JSON, as an error page is) or a document, [status |->  *)
(* "json", ...].  fetch resolves when the response starts to arrive;       *)
(* json() reads the body and parses it.  A trades document is [hasTrades,  *)
(* trades, stats, lastUpdated], a filings document [hasFilings, filings].  *)
(*                                                                         *)
(* calls[i] is one loadData invocation: pc is the await it is suspended at *)
(* ("fetchTrades" script.js:30, "parseTrades" :31, "fetchFilings" :34,     *)
(* "parseFilings" :35), or "idle", "done", "failed" when slot i holds no   *)
(* running invocation; tradesJson is its local of that name.               *)
(*                                                                         *)
(* solo is history kept for the properties: while one invocation is in     *)
(* flight and no other has been since it started, the two datasets as they *)
(* were when it started.                                                   *)
(*                                                                         *)
(* pairing is history kept for the properties: paired says that the        *)
(* invocation that assigned tradesData last also assigned form8kData last  *)
(* (or that neither has been assigned); tradesBy is the slot of the        *)
(* invocation that assigned tradesData last while it can still assign      *)
(* form8kData, else 0.                                                     *)

Slots == 1..MaxInFlight

None == [status |-> "none"]
NotSolo == [active |-> FALSE, trades |-> <<>>, filings |-> <<>>]

InFlight(call) == call.pc \in {"fetchTrades", "parseTrades", "fetchFilings", "parseFilings"}

NoneInFlight == \A i \in Slots : ~InFlight(calls[i])

NumberInFlight == Cardinality({i \in Slots : InFlight(calls[i])})

finished(outcome) == [pc |-> outcome, tradesJson |-> None]

\* tradesJson.trades || []
tradesOf(tradesJson) == IF tradesJson.hasTrades THEN tradesJson.trades ELSE <<>>

\* form8kJson.filings || []
filingsOf(form8kJson) == IF form8kJson.hasFilings THEN form8kJson.filings ELSE <<>>

\* new Date(tradesJson.lastUpdated || Date.now()).toLocaleString(); an absent
\* lastUpdated is the empty text
lastUpdateText(tradesJson) ==
    IF tradesJson.lastUpdated # "" THEN "Last updated: " \o tradesJson.lastUpdated
    ELSE "Last updated: now"

\* startCall with a fault: the new call aborts the invocations in flight
startCallAborting(cs, i) ==
    [j \in Slots |->
        IF j = i THEN [pc |-> "fetchTrades", tradesJson |-> None]
        ELSE IF InFlight(cs[j]) THEN finished("failed")
        ELSE cs[j]]

\* a call of loadData runs to its first await: nothing awaits or cancels the
\* invocations already in flight
startCall(cs, i) ==
    [cs EXCEPT ![i] = [pc |-> "fetchTrades", tradesJson |-> None]]

\* both datasets are as one invocation, or the script's first lines, left them
Paired == [paired |-> TRUE, tradesBy |-> 0]

\* invocation i has assigned tradesData (script.js:32)
pairingAfterTrades(i) == [paired |-> FALSE, tradesBy |-> i]

\* invocation i has assigned form8kData (script.js:36)
pairingAfterFilings(i) ==
    IF pairing.tradesBy = i THEN Paired
    ELSE [pairing EXCEPT !.paired = FALSE]

\* invocation i has ended in the catch block without assigning form8kData
pairingAfterFailure(i) ==
    IF pairing.tradesBy = i THEN [pairing EXCEPT !.tradesBy = 0]
    ELSE pairing

\* timerAfterCatch with a fault: the catch block clears the interval
timerClearedByCatch(active) == FALSE

\* the catch block leaves the interval registered
timerAfterCatch(active) == active

\* script.js:53-62
catchBlock(i) ==
    /\ form4Body' = [state |-> NoDataAvailable, rows |-> 0]
    /\ timerActive' = timerAfterCatch(timerActive)
    /\ calls' = [calls EXCEPT ![i] = finished("failed")]
    /\ solo' = NotSolo

\* setInterval(loadData, 300000): a tick calls loadData whatever the earlier
\* invocations are doing; the model holds at most limit of them at a time
TimerFires(limit) ==
    /\ timerActive
    /\ NumberInFlight < limit
    /\ \E i \in Slots :
        /\ ~InFlight(calls[i])
        /\ \A j \in Slots : j < i => InFlight(calls[j])
        /\ calls' = startCall(calls, i)
    /\ solo' = IF NoneInFlight
                 THEN [active |-> TRUE, trades |-> tradesData, filings |-> form8kData]
               ELSE NotSolo
    /\ UNCHANGED <<globals, controls, rendered, feed, timerActive, pairing>>

TradesFetchResolves(i) ==
    /\ calls[i].pc = "fetchTrades"
    /\ \E response \in TradesResponses : response.status # "unreachable"
    /\ calls' = [calls EXCEPT ![i].pc = "parseTrades"]
    /\ UNCHANGED <<globals, controls, rendered, feed, timerActive, solo, pairing>>

TradesFetchRejects(i) ==
    /\ calls[i].pc = "fetchTrades"
    /\ \E response \in TradesResponses : response.status = "unreachable"
    /\ catchBlock(i)
    /\ pairing' = pairingAfterFailure(i)
    /\ UNCHANGED <<globals, controls, feed>>
    /\ UNCHANGED <<form8kBody, statsText, valueChart, lastUpdate>>

\* script.js:31-34: the document is parsed, tradesData assigned and the
\* filings fetch started
TradesJsonResolves(i) ==
    /\ calls[i].pc = "parseTrades"
    /\ \E tradesJson \in TradesResponses :
        /\ tradesJson.status = "json"
        /\ tradesData' = tradesOf(tradesJson)
        /\ calls' = [calls EXCEPT ![i].pc = "fetchFilings", ![i].tradesJson = tradesJson]
    /\ UNCHANGED <<form8kData, filteredTrades, customWatchlistTickers, form8kSortOrder>>
    /\ pairing' = pairingAfterTrades(i)
    /\ UNCHANGED <<controls, rendered, feed, timerActive, solo>>

TradesJsonRejects(i) ==
    /\ calls[i].pc = "parseTrades"
    /\ \E response \in TradesResponses : response.status # "json"
    /\ catchBlock(i)
    /\ pairing' = pairingAfterFailure(i)
    /\ UNCHANGED <<globals, controls, feed>>
    /\ UNCHANGED <<form8kBody, statsText, valueChart, lastUpdate>>

FilingsFetchResolves(i) ==
    /\ calls[i].pc = "fetchFilings"
    /\ \E response \in FilingsResponses : response.status # "unreachable"
    /\ calls' = [calls EXCEPT ![i].pc = "parseFilings"]
    /\ UNCHANGED <<globals, controls, rendered, feed, timerActive, solo, pairing>>

FilingsFetchRejects(i) ==
    /\ calls[i].pc = "fetchFilings"
    /\ \E response \in FilingsResponses : response.status = "unreachable"
    /\ catchBlock(i)
    /\ pairing' = pairingAfterFailure(i)
    /\ UNCHANGED <<globals, controls, feed>>
    /\ UNCHANGED <<form8kBody, statsText, valueChart, lastUpdate>>

FilingsJsonRejects(i) ==
    /\ calls[i].pc = "parseFilings"
    /\ \E response \in FilingsResponses : response.status # "json"
    /\ catchBlock(i)
    /\ pairing' = pairingAfterFailure(i)
    /\ UNCHANGED <<globals, controls, feed>>
    /\ UNCHANGED <<form8kBody, statsText, valueChart, lastUpdate>>

\* script.js:35-52 run through: form8kData assigned, the statistics, both
\* tables (the second renderForm8kTable of :48 renders the same inputs as
\* the one inside applyFilters), the charts and the time of the update
LoadCompletes(i) ==
    /\ calls[i].pc = "parseFilings"
    /\ ~updateStatsThrows(calls[i].tradesJson.stats)
    /\ \E form8kJson \in FilingsResponses :
        /\ form8kJson.status = "json"
        /\ form8kData' = filingsOf(form8kJson)
    /\ UNCHANGED <<tradesData, customWatchlistTickers, form8kSortOrder>>
    /\ UNCHANGED controls
    /\ updateStats(calls[i].tradesJson.stats)
    /\ applyFiltersTrades
    /\ renderForm8kTable
    /\ renderCharts
    /\ lastUpdate' = lastUpdateText(calls[i].tradesJson)
    /\ calls' = [calls EXCEPT ![i] = finished("done")]
    /\ solo' = NotSolo
    /\ pairing' = pairingAfterFilings(i)
    /\ UNCHANGED <<feed, timerActive>>

\* script.js:35-46 with a stats object that makes updateStats throw: form8kData
\* is assigned, then control passes to the catch block
LoadThrowsInUpdateStats(i) ==
    /\ calls[i].pc = "parseFilings"
    /\ updateStatsThrows(calls[i].tradesJson.stats)
    /\ \E form8kJson \in FilingsResponses :
        /\ form8kJson.status = "json"
        /\ form8kData' = filingsOf(form8kJson)
    /\ UNCHANGED <<tradesData, filteredTrades, customWatchlistTickers, form8kSortOrder>>
    /\ catchBlock(i)
    /\ pairing' = pairingAfterFilings(i)
    /\ UNCHANGED <<controls, feed>>
    /\ UNCHANGED <<form8kBody, statsText, valueChart, lastUpdate>>

\* one step of invocation i
LoadStep(i) ==
    \/ TradesFetchResolves(i)
    \/ TradesFetchRejects(i)
    \/ TradesJsonResolves(i)
    \/ TradesJsonRejects(i)
    \/ FilingsFetchResolves(i)
    \/ FilingsFetchRejects(i)
    \/ FilingsJsonRejects(i)
    \/ LoadCompletes(i)
    \/ LoadThrowsInUpdateStats(i)

---------------------------------------------------------------------------
(* The refresh model: the page after the script has run (script.js:504-507 *)
(* have registered the timer and called loadData once), the feed, the      *)
(* timer, the invocations and the user.                                    *)

InitialBody == [state |-> "initial", rows |-> 0]
InitialForm8kBody == [state |-> "initial", rows |-> <<>>]
InitialStatsText ==
    [totalAlerts |-> Undefined, totalBuys |-> Undefined, totalSells |-> Undefined,
     totalValue |-> [hundredths |-> Undefined, suffix |-> ""],
     total8K |-> Undefined, activeTickers |-> Undefined]

\* the controls as resetFilters leaves them, the other boxes empty
InitControls ==
    /\ filterType = "all"
    /\ filterTicker = <<>>
    /\ filterMinValue = "100000"
    /\ sortBy = "date"
    /\ customWatchlist = <<>>
    /\ sort8K = "newest"

InitRendered ==
    /\ form4Body = InitialBody
    /\ form8kBody = InitialForm8kBody
    /\ statsText = InitialStatsText
    /\ valueChart = [b \in 1..6 |-> 0]
    /\ lastUpdate = ""

Init ==
    /\ tradesData = <<>>
    /\ form8kData = <<>>
    /\ filteredTrades = <<>>
    /\ customWatchlistTickers = <<>>
    /\ form8kSortOrder = "newest"
    /\ InitControls
    /\ InitRendered
    /\ feed = AnyFeed
    /\ calls = startCall([i \in Slots |-> finished("idle")], 1)
    /\ timerActive = TRUE
    /\ solo = [active |-> TRUE, trades |-> <<>>, filings |-> <<>>]
    /\ pairing = Paired

Next ==
    \/ TimerFires(MaxInFlight)
    \/ \E i \in Slots : LoadStep(i)
    \/ ApplyFilters

Spec == Init /\ [][Next]_vars

---------------------------------------------------------------------------
(* The refresh loop followed over time: the feed is in one of the states   *)
(* of Feeds and changes; a tick of the interval is never lost for good and *)
(* every awaited response arrives or fails.                                *)

InitLive ==
    /\ tradesData = <<>>
    /\ form8kData = <<>>
    /\ filteredTrades = <<>>
    /\ customWatchlistTickers = <<>>
    /\ form8kSortOrder = "newest"
    /\ InitControls
    /\ InitRendered
    /\ feed \in Feeds
    /\ calls = startCall([i \in Slots |-> finished("idle")], 1)
    /\ timerActive = TRUE
    /\ solo = [active |-> TRUE, trades |-> <<>>, filings |-> <<>>]
    /\ pairing = Paired

NextLive ==
    \/ TimerFires(MaxInFlightLive)
    \/ \E i \in Slots : LoadStep(i)
    \/ FeedChanges
    \/ ApplyFilters

SpecLive ==
    /\ InitLive
    /\ [][NextLive]_vars
    /\ WF_vars(TimerFires(MaxInFlightLive))
    /\ \A i \in Slots : WF_vars(LoadStep(i))

---------------------------------------------------------------------------
(* The filter pipeline on its own: any trades list up to MaxTrades over    *)
(* FilterTrades has been loaded, the controls hold any of the settings     *)
(* below, and the handlers of the controls run.                            *)

FilterTrades ==
    { Trade("BUY", BA, 200000, 100, "2024-01-01"),
      Trade("SELL", AB, 50000, 100, "2024-01-02"),
      Trade("BUY", A, 200000, 50, "2024-01-02T00:00:00Z"),
      Trade("SELL", BA, Undefined, 10, "2024-01-03"),
      Trade("BUY", ba, 100000, 50, "2024-01-01") }

SeqsUpTo(S, n) == UNION { [1..k -> S] : k \in 0..n }

Idle ==
    /\ feed = AnyFeed
    /\ calls = [i \in Slots |-> finished("done")]
    /\ timerActive = TRUE
    /\ solo = NotSolo
    /\ pairing = Paired

InitFilter ==
    /\ tradesData \in SeqsUpTo(FilterTrades, MaxTrades)
    /\ form8kData = FilingsDocA.filings
    /\ filteredTrades = <<>>
    /\ \E typed \in {<<>>, ba} :
        /\ customWatchlist = typed
        /\ customWatchlistTickers = customWatchlistFrom(typed)
    /\ form8kSortOrder = "newest"
    /\ filterType \in {"all", "BUY", "SELL"}
    /\ filterTicker \in {<<>>, <<"a">>, ba}
    /\ filterMinValue \in {"", "100000"}
    /\ sortBy \in {"date", "value", "shares"}
    /\ sort8K = "newest"
    /\ InitRendered
    /\ Idle

NextFilter ==
    \/ ApplyFilters
    \/ ResetFilters
    \/ ApplyCustomWatchlist
    \/ ClearCustomWatchlist

SpecFilter == InitFilter /\ [][NextFilter]_vars

---------------------------------------------------------------------------
(* The watchlist on its own: any text up to MaxInputLen characters is in   *)
(* the box, and Apply or Clear is pressed.                                 *)

WatchlistChars == {"a", "B", Space, Comma}

WatchlistTrades ==
    << Trade("BUY", A, 200000, 100, "2024-01-01"),
       Trade("SELL", BA, 50000, 100, "2024-01-02"),
       Trade("BUY", AB, 100000, 50, "2024-01-02"),
       Trade("SELL", ba, 100000, 50, "2024-01-03"),
       Trade("BUY", BA, 500000, 10, "2024-01-03") >>

WatchlistFilings ==
    << Filing(AB, "2024-01-02", "absent", <<>>, <<>>),
       Filing(A, "2024-01-01", "absent", <<>>, <<>>),
       Filing(<<"B">>, "2024-01-03", "absent", <<>>, <<>>),
       Filing(AB, "2024-01-03", "absent", <<>>, <<>>) >>

InitWatchlist ==
    /\ tradesData = WatchlistTrades
    /\ form8kData = WatchlistFilings
    /\ filteredTrades = <<>>
    /\ customWatchlistTickers = <<>>
    /\ customWatchlist \in SeqsUpTo(WatchlistChars, MaxInputLen)
    /\ form8kSortOrder = "newest"
    /\ filterType = "all"
    /\ filterTicker = <<>>
    /\ filterMinValue \in {"", "100000"}
    /\ sortBy = "date"
    /\ sort8K = "newest"
    /\ InitRendered
    /\ Idle

NextWatchlist ==
    \/ ApplyCustomWatchlist
    \/ ClearCustomWatchlist

SpecWatchlist == InitWatchlist /\ [][NextWatchlist]_vars

---------------------------------------------------------------------------
(* The Form 8-K table on its own: one filing whose items are any of the    *)
(* shapes below has been loaded, and the table is rendered.                *)

Chars(a, b, c, d) == <<a, b, c, d>>

ItemCodes ==
    { Chars("2", ".", "0", "2"),
      Chars("8", ".", "0", "1"),
      Chars("9", ".", "9", "9"),
      <<Space>> \o Chars("5", ".", "0", "2") \o <<Space>>,
      <<"c", "o", "n", "s", "t", "r", "u", "c", "t", "o", "r">> }

\* the items of an array written as one comma-joined string
RECURSIVE CommaJoined(_)
CommaJoined(arr) ==
    IF arr = <<>> THEN <<>>
    ELSE IF Len(arr) = 1 THEN Head(arr)
    ELSE Head(arr) \o <<Comma, Space>> \o CommaJoined(Tail(arr))

ExplainFilings ==
    { Filing(AB, "2024-01-02", "absent", <<>>, <<>>) }
    \cup { Filing(AB, "2024-01-02", "array", arr, <<>>) :
                arr \in SeqsUpTo(ItemCodes, MaxItems) }
    \cup { Filing(AB, "2024-01-02", "string", <<>>, CommaJoined(arr)) :
                arr \in SeqsUpTo(ItemCodes, MaxItems) }

InitExplain ==
    /\ tradesData = <<>>
    /\ \E filing \in ExplainFilings : form8kData = <<filing>>
    /\ filteredTrades = <<>>
    /\ customWatchlistTickers = <<>>
    /\ form8kSortOrder = "newest"
    /\ InitControls
    /\ InitRendered
    /\ Idle

NextExplain ==
    \/ ApplyForm8KSort
    \/ \E order \in {"newest", "oldest"} : ChangeForm8KSort(order)

SpecExplain == InitExplain /\ [][NextExplain]_vars

---------------------------------------------------------------------------
(* The value histogram on its own: any trades list up to MaxTrades whose   *)
(* values sit on and around the bucket boundaries has been loaded, and the *)
(* charts are rendered.                                                    *)

ChartValues ==
    { Undefined, 0, 49999, 50000, 99999, 100000, 499999, 500000, 999999,
      1000000, 4999999, 5000000 }

ChartTrades == { Trade("BUY", BA, v, 100, "2024-01-01") : v \in ChartValues }

InitCharts ==
    /\ tradesData \in SeqsUpTo(ChartTrades, MaxTrades)
    /\ form8kData = <<>>
    /\ filteredTrades = <<>>
    /\ customWatchlistTickers = <<>>
    /\ form8kSortOrder = "newest"
    /\ InitControls
    /\ InitRendered
    /\ Idle

NextCharts == RenderCharts

SpecCharts == InitCharts /\ [][NextCharts]_vars

---------------------------------------------------------------------------
(* The refresh model with every awaited response arriving or failing: the  *)
(* overlapping invocations of Spec, each one taking its steps.             *)

SpecFair ==
    /\ Init
    /\ [][Next]_vars
    /\ \A i \in Slots : WF_vars(LoadStep(i))

---------------------------------------------------------------------------
(* Properties of loadData and the refresh timer.                           *)

Finishes(i) == InFlight(calls[i]) /\ ~InFlight(calls'[i])

\* C1: whenever a loadData invocation fails at any step, tradesData and
\* form8kData hold the values they had before that invocation started and the
\* "no data available" placeholder is shown.  Stated for an invocation that ran
\* with no other in flight, whose starting values solo holds.
C1_FailedLoadKeepsDatasets ==
    [][\A i \in Slots :
            (InFlight(calls[i]) /\ calls'[i].pc = "failed" /\ solo.active)
                => /\ tradesData' = solo.trades
                   /\ form8kData' = solo.filings
                   /\ form4Body'.state = NoDataAvailable]_vars

\* filteredTrades is a filter-and-sort of tradesData under the controls and
\* the watchlist as they stand
FilteredTradesCurrent ==
    filteredTrades \in
        sortOutcomes(filterTrades(tradesData, filterType, toUpperCase(filterTicker),
                                  customWatchlistTickers,
                                  parseFloatOrZero(filterMinValue)),
                     tradeSortMode(sortBy))

\* the four rules a record passes, a record without totalValue failing the
\* fourth
SatisfiesRules(record) ==
    /\ filterType = "all" \/ record.type = filterType
    /\ filterTicker = <<>> \/ includes(record.symbol, toUpperCase(filterTicker))
    /\ customWatchlistTickers = <<>>
            \/ \E k \in 1..Len(customWatchlistTickers) :
                    customWatchlistTickers[k] = record.symbol
    /\ IsNumber(record.totalValue)
    /\ record.totalValue >= parseFloatOrZero(filterMinValue)

\* filteredTrades is a sort of the records of tradesData that pass the four
\* rules
FilteredTradesCurrentByRules ==
    filteredTrades \in
        sortOutcomes(SelectSeq(tradesData, SatisfiesRules), tradeSortMode(sortBy))

\* C3: after every completed loadData invocation, succeeded or failed, and
\* after every completed user action, filteredTrades equals the
\* filter-and-sort of the current tradesData under the current criteria and
\* watchlist, whichever way a record without totalValue is filtered.
C3_FilteredTradesNeverStale ==
    [][((\E i \in Slots : Finishes(i)) \/ ApplyFilters)
            => (FilteredTradesCurrent \/ FilteredTradesCurrentByRules)']_vars

\* C4: when a second loadData invocation starts while an earlier one is still
\* awaiting, neither is cancelled or skipped: an invocation in flight changes
\* only by its own steps and runs to completion; tradesData and form8kData
\* change only in the step of an invocation that assigns them, to the value
\* that invocation assigns, so that each holds what was written last.
C4_OverlappingLoadsLastWriteWins ==
    /\ [][\A i \in Slots :
            (InFlight(calls[i]) /\ calls'[i] # calls[i]) => LoadStep(i)]_vars
    /\ [][\A i \in Slots :
            (calls[i].pc = "parseTrades" /\ calls'[i].pc = "fetchFilings")
                => tradesData' = tradesOf(calls'[i].tradesJson)]_vars
    /\ [][tradesData' # tradesData
            => \E i \in Slots : TradesJsonResolves(i)]_vars
    /\ [][form8kData' # form8kData
            => \E i \in Slots : LoadCompletes(i) \/ LoadThrowsInUpdateStats(i)]_vars
    /\ \A i \in Slots : InFlight(calls[i]) ~> ~InFlight(calls[i])

\* two overlapping invocations have both completed; the one that completed
\* last had read a document without lastUpdated, and tradesData is what the
\* other one wrote after it
C4_BothCompleted ==
    /\ calls[1].pc = "done"
    /\ calls[2].pc = "done"
    /\ lastUpdate = "Last updated: now"
    /\ tradesData = TradesDocA.trades

\* the feed states in which a load runs through
HealthyFeeds ==
    { f \in Feeds : /\ f.trades.status = "json"
                    /\ f.filings.status = "json"
                    /\ ~updateStatsThrows(f.trades.stats) }

\* the Form 8-K table bodies that show the filings as they stand
Form8kBodiesCurrent ==
    { IF Len(display) = 0
        THEN [state |-> "No Form 8-K filings available", rows |-> <<>>]
      ELSE [state |-> "rows", rows |-> form8kRows(display)] :
        display \in sortOutcomes(displayForm8kOf(form8kData, customWatchlistTickers),
                                 form8kMode(form8kSortOrder)) }

\* the datasets are the contents of feed state f and the views derive from them
SyncedWith(f) ==
    /\ tradesData = tradesOf(f.trades)
    /\ form8kData = filingsOf(f.filings)
    /\ FilteredTradesCurrent
    /\ form4Body.state # NoDataAvailable
    /\ form8kBody \in Form8kBodiesCurrent
    /\ valueChart = valueBucketsOf(tradesData)
    /\ ~updateStatsSkips(f.trades.stats)
            => statsText = statsTextOf(f.trades.stats, tradesData, form8kData)

RECURSIVE SumOfValues(_)
SumOfValues(trades) ==
    IF trades = <<>> THEN 0
    ELSE (IF IsNumber(Head(trades).totalValue) THEN Head(trades).totalValue ELSE 0)
            + SumOfValues(Tail(trades))

CountOfType(trades, type) ==
    Cardinality({k \in 1..Len(trades) : trades[k].type = type})

UnionSize(trades, filings) ==
    Cardinality(symbolsOf(trades)) + Cardinality(symbolsOf(filings))
        - Cardinality(symbolsOf(trades) \cap symbolsOf(filings))

\* C10: after a successful load of a trades document that has a stats object,
\* the filing count is the length of form8kData and the active-ticker count
\* the size of the union of the symbols of tradesData and form8kData, while
\* the trade, buy and sell counts and the total value are the numbers of that
\* stats object; after a successful load of a document without a stats object
\* no statistic has changed.
C10_StatsFromFeedAndDatasets ==
    [][\A i \in Slots :
            (calls[i].pc = "parseFilings" /\ calls'[i].pc = "done") =>
                LET stats == calls[i].tradesJson.stats
                IN  IF stats.kind = "absent" THEN statsText' = statsText
                    ELSE /\ statsText'.total8K = Len(form8kData')
                         /\ statsText'.activeTickers = UnionSize(tradesData', form8kData')
                         /\ statsText'.totalAlerts = stats.totalAlerts
                         /\ statsText'.totalBuys = stats.buys
                         /\ statsText'.totalSells = stats.sells
                         /\ statsText'.totalValue = formatTotalValue(stats.totalValue)]_vars

\* C10 as the specification states it: after every successful load the filing
\* count is the length of form8kData, the trade, buy and sell counts and the
\* total value are the counts and the sum over tradesData, and the
\* active-ticker count is the size of the union of the symbols.
C10_StatsComputedFromDatasets ==
    [][\A i \in Slots :
            (calls[i].pc = "parseFilings" /\ calls'[i].pc = "done") =>
                /\ statsText'.total8K = Len(form8kData')
                /\ statsText'.activeTickers = UnionSize(tradesData', form8kData')
                /\ statsText'.totalAlerts = Len(tradesData')
                /\ statsText'.totalBuys = CountOfType(tradesData', "BUY")
                /\ statsText'.totalSells = CountOfType(tradesData', "SELL")
                /\ statsText'.totalValue = formatTotalValue(SumOfValues(tradesData'))]_vars

\* a load of the two-trade document and the two-filing document has completed:
\* BA, AB and A are three tickers, AB being in both datasets
C10_ThreeTickersShown ==
    /\ lastUpdate = "Last updated: 2024-01-02T12:00:00Z"
    /\ tradesData = TradesDocA.trades
    /\ form8kData = FilingsDocA.filings
    /\ statsText.total8K = 2
    /\ statsText.activeTickers = 3

---------------------------------------------------------------------------
(* Properties of the filter, the sort and the watchlist.                   *)

Range(seq) == {seq[k] : k \in 1..Len(seq)}

CountIn(seq, record) == Cardinality({k \in 1..Len(seq) : seq[k] = record})

\* C2: the list produced by applyFilters contains exactly the records of
\* tradesData that satisfy all four rules (type, ticker substring, watchlist,
\* totalValue >= minValue with an absent totalValue not satisfying it), each
\* exactly once: nothing added, nothing dropped, nothing duplicated.
C2_ExactlyTheRecordsPassingTheRules ==
    form4Body # InitialBody =>
        \A record \in Range(tradesData) \cup Range(filteredTrades) :
            CountIn(filteredTrades, record) =
                IF SatisfiesRules(record) THEN CountIn(tradesData, record) ELSE 0

\* the sort key of a trade under the sortBy control
SortKey(trade) ==
    CASE sortBy = "value"  -> trade.totalValue
      [] sortBy = "shares" -> trade.shares
      [] OTHER             -> DateParse(trade.filingDate)

\* C6: the sorted trade list is in descending order of the sort key
\* (totalValue for "value", shares for "shares", the parsed filingDate
\* otherwise), and any two trades with equal sort key appear in filteredTrades
\* in the same relative order as in tradesData.
C6_DescendingAndStable ==
    form4Body # InitialBody =>
        /\ \A p, q \in 1..Len(filteredTrades) :
                (/\ p < q
                 /\ IsNumber(SortKey(filteredTrades[p]))
                 /\ IsNumber(SortKey(filteredTrades[q])))
                    => SortKey(filteredTrades[p]) >= SortKey(filteredTrades[q])
        /\ \A key \in {SortKey(trade) : trade \in Range(filteredTrades)} :
                IsNumber(key) =>
                    SelectSeq(filteredTrades, LAMBDA trade : SortKey(trade) = key)
                        = SelectSeq(tradesData,
                                    LAMBDA trade : /\ SortKey(trade) = key
                                                   /\ trade \in Range(filteredTrades))

\* the positions of the commas of text, and where its tokens start
CommasOf(text) == {k \in 1..Len(text) : text[k] = Comma}

TokenStarts(text) == {1} \cup {k + 1 : k \in CommasOf(text)}

\* the token that starts at position start: up to the next comma or the end
TokenAt(text, start) ==
    LET stops == {k \in CommasOf(text) : k >= start} \cup {Len(text) + 1}
        stop  == CHOOSE k \in stops : \A other \in stops : k <= other
    IN  SubSeq(text, start, stop - 1)

\* a token without the spaces around it, in upper case
Tidied(token) ==
    LET inked == {k \in 1..Len(token) : token[k] # Space}
    IN  IF inked = {} THEN <<>>
        ELSE LET first == CHOOSE k \in inked : \A other \in inked : k <= other
                 last  == CHOOSE k \in inked : \A other \in inked : k >= other
             IN  toUpperCase(SubSeq(token, first, last))

\* the comma-separated tokens of text, tidied, the empty ones dropped
TokensOf(text) ==
    LET starts == {k \in TokenStarts(text) : Tidied(TokenAt(text, k)) # <<>>}
        nth(n) == CHOOSE k \in starts : Cardinality({j \in starts : j < k}) = n - 1
    IN  [n \in 1..Cardinality(starts) |-> Tidied(TokenAt(text, nth(n)))]

\* what a watchlist lets through
LetsThrough(watchlist, symbol) == watchlist = <<>> \/ symbol \in Range(watchlist)

\* C8: applyCustomWatchlist sets the watchlist to the comma-separated tokens of
\* the input, each trimmed and uppercased with empty tokens dropped; an empty
\* watchlist lets every symbol through and a non-empty one exactly the records
\* whose symbol is a member, for the trade list and for the displayed filings.
C8_WatchlistTokensAndMembership ==
    form4Body # InitialBody =>
        /\ customWatchlistTickers = TokensOf(customWatchlist)
        /\ Range(filteredTrades) =
                { trade \in Range(tradesData) :
                    /\ LetsThrough(TokensOf(customWatchlist), trade.symbol)
                    /\ trade.totalValue >= parseFloatOrZero(filterMinValue) }
        /\ Len(filteredTrades) = Cardinality(Range(filteredTrades))
        /\ {row.filing : row \in Range(form8kBody.rows)} =
                { filing \in Range(form8kData) :
                    LetsThrough(TokensOf(customWatchlist), filing.symbol) }
        /\ Len(form8kBody.rows) = Cardinality(Range(form8kBody.rows))

\* " a,B" has been applied: the watchlist is A and B, which lets through the
\* trade of A and the filings of A and B and nothing of AB or BA
C8_TwoTokensApplied ==
    /\ customWatchlist = <<Space, "a", Comma, "B">>
    /\ customWatchlistTickers = << <<"A">>, <<"B">> >>
    /\ filterMinValue = "100000"
    /\ Len(filteredTrades) = 1
    /\ Len(form8kBody.rows) = 2

---------------------------------------------------------------------------
(* Properties of the Form 8-K explanations and of the value histogram.     *)

\* the item codes of a filing, trimmed: of a list, of a comma-joined string,
\* or none
CodesOf(filing) ==
    CASE filing.itemsKind = "array"  -> mapTrim(filing.itemsArray)
      [] filing.itemsKind = "string" -> mapTrim(split(filing.itemsString))
      [] OTHER                       -> <<>>

InTable(code) == Text(code) \in DOMAIN itemExplanations

ExplanationOfCode(code) ==
    "<span class=\"item-code\">Item " \o Text(code)
        \o "</span><span class=\"item-description\">"
        \o itemExplanations[Text(code)] \o "</span>"

\* one explanation per code of the table, in item order, or the fallback
ExplanationByTable(filing) ==
    LET found == SelectSeq(CodesOf(filing), InTable)
    IN  IF found = <<>> THEN "Material company event requiring SEC disclosure."
        ELSE "<div style=\"line-height: 1.8;\">"
                \o joinBr([k \in 1..Len(found) |-> ExplanationOfCode(found[k])])
                \o "</div>"

\* C7: for every filing whose items field is a list of strings, a comma-joined
\* string or absent, get8KExplanation returns a non-empty string: one
\* explanation per item code found in the static table, in item order, codes
\* not in the table skipped, and exactly the fallback string "Material company
\* event requiring SEC disclosure." when items is empty or no code matches.
C7_OneExplanationPerTableCode ==
    form8kBody.state = "rows" =>
        \A k \in 1..Len(form8kBody.rows) :
            /\ form8kBody.rows[k].explanation # ""
            /\ form8kBody.rows[k].explanation
                    = ExplanationByTable(form8kBody.rows[k].filing)

BucketLowerBounds == <<0, 50000, 100000, 500000, 1000000, 5000000>>

\* value is a number in the range of bucket b, lower bound included
InBucketRange(b, value) ==
    /\ IsNumber(value)
    /\ value >= BucketLowerBounds[b]
    /\ b < 6 => value < BucketLowerBounds[b + 1]

ChartCountsEveryTradeOnce ==
    /\ valueChart[1] + valueChart[2] + valueChart[3]
            + valueChart[4] + valueChart[5] + valueChart[6] = Len(tradesData)
    /\ \A b \in 1..6 :
            valueChart[b] >= Cardinality({k \in 1..Len(tradesData) :
                                InBucketRange(b, tradesData[k].totalValue)})

\* C9: in the value histogram every trade of tradesData is counted in exactly
\* one of the six buckets, so the counts sum to the number of trades, and a
\* trade is counted in the bucket whose range contains its totalValue, lower
\* bounds inclusive: 50000 in [50000,100000) and 5000000 in >=5000000.
C9_EveryTradeInItsBucket ==
    [][RenderCharts => ChartCountsEveryTradeOnce']_vars

\* trades of 50000 and of 5000000 have been charted: one in the second
\* bucket, one in the last
C9_BoundaryValuesCharted ==
    /\ Len(tradesData) = 2
    /\ tradesData[1].totalValue = 50000
    /\ tradesData[2].totalValue = 5000000
    /\ valueChart = <<0, 1, 0, 0, 0, 1>>

---------------------------------------------------------------------------
(* Property of the pairing of the two datasets.                            *)

\* C11: whenever no loadData invocation is in flight, tradesData and
\* form8kData were both assigned by the same loadData invocation, or are both
\* still the initial empty lists: no sequence of overlapping or partially
\* failing refreshes leaves the trades of one refresh paired with the filings
\* of another.
C11_DatasetsFromOneInvocation ==
    NoneInFlight =>
        \/ pairing.paired
        \/ tradesData = <<>> /\ form8kData = <<>>

=============================================================================
